---- MODULE Spec2Model ----
(***************************************************************************)
(* A model of lutris/util/display.py: the compositing toggle               *)
(* (disable_compositing / enable_compositing and the stack they share),    *)
(* the screen saver inhibitor (DBusScreenSaverInhibitor) and the           *)
(* display-manager fallback chain (get_display_manager).                   *)
(*                                                                         *)
(* Python values are written as follows.  A str or bytes value whose       *)
(* characters the code inspects (DESKTOP_SESSION) is a tuple of one-letter *)
(* strings; other strings are TLA+ strings.  None is the string "None"     *)
(* where the other values are strings, the empty tuple where the other     *)
(* values are command tuples, and NoneCookie where they are integers.      *)
(***************************************************************************)
EXTENDS Integers, Sequences, FiniteSets, TLC

\* ------------------------------------------------------------------ bounds

\* The number of disable_compositing calls, and of enable_compositing calls,
\* a run makes.
MaxCalls == 2

\* The number of cookies returned by inhibit that the caller holds at a time.
MaxInhibits == 2

\* The largest cookie a screen saver backend hands out (cookies are unsigned).
MaxCookie == 1

\* ------------------------------------------------------------------ state

VARIABLES
    desktop_session,    \* os.environ["DESKTOP_SESSION"], "" when unset
    compositing,        \* the desktop: TRUE while the compositor is active
    tool,               \* the desktop's settings tool: "ok", "missing" from
                        \* the PATH, or "noexec" (found, not executable)
    stack,              \* _COMPOSITING_DISABLED_STACK
    pending,            \* commands spawned by _run_command and not yet done
    call,               \* per thread: where its call into the toggle is
    last,               \* what the latest compositing call did
    nDisable,           \* calls of disable_compositing so far
    nEnable,            \* calls of enable_compositing so far
    nStop,              \* stop-compositor commands passed to _run_command
    nStart,             \* start-compositor commands passed to _run_command
    before,             \* compositing at the outermost disable_compositing
    disturbed,          \* since then the desktop was changed from outside
    overlapped,         \* a call was made while another thread was in one
    emptyPop,           \* enable_compositing was called on an empty stack
    proxy,              \* DBusScreenSaverInhibitor.proxy: the service it
                        \* talks to, "None" when not set
    app,                \* Gio.Application.get_default() is not None
    outstanding,        \* per backend, the cookies of the inhibitions it holds
    cookies,            \* what inhibit returned and the caller still holds,
                        \* each with the backend that gave it
    switched,           \* the proxy was set while inhibitions were held
    lastInhibit,        \* what the latest inhibitor call did
    dm                  \* the display manager module state

compVars == <<desktop_session, compositing, tool, stack, pending, call, last,
              nDisable, nEnable, nStop, nStart, before, disturbed, overlapped,
              emptyPop>>
inhVars == <<proxy, app, outstanding, cookies, switched, lastInhibit>>
vars == <<compVars, inhVars, dm>>

\* The threads that call into the module.
Threads == {"main", "worker"}

\* ------------------------------------------------------------------ strings

UpperCase == <<"A","B","C","D","E","F","G","H","I","J","K","L","M",
               "N","O","P","Q","R","S","T","U","V","W","X","Y","Z">>
LowerCase == <<"a","b","c","d","e","f","g","h","i","j","k","l","m",
               "n","o","p","q","r","s","t","u","v","w","x","y","z">>

\* str.lower() on one character
LowerChar(c) ==
    IF \E i \in 1..Len(UpperCase) : UpperCase[i] = c
    THEN LowerCase[CHOOSE i \in 1..Len(UpperCase) : UpperCase[i] = c]
    ELSE c

\* str.lower()
lower(s) == [i \in 1..Len(s) |-> LowerChar(s[i])]

\* str.endswith(suffix)
endswith(s, suffix) ==
    /\ Len(suffix) <= Len(s)
    /\ SubSeq(s, Len(s) - Len(suffix) + 1, Len(s)) = suffix

\* `sub in s` for strings
contains(s, sub) ==
    \E i \in 1..(Len(s) - Len(sub) + 1) : SubSeq(s, i, i + Len(sub) - 1) = sub

\* The values of DESKTOP_SESSION the model draws from.
DesktopSessions ==
    { <<>>,
      <<"m","a","t","e">>,
      <<"X","f","c","e">>,
      <<"d","e","e","p","i","n">>,
      <<"p","l","a","s","m","a">>,
      <<"p","l","a","s","m","a","x","1","1">>,
      <<"g","n","o","m","e">> }

\* ------------------------------------------------- desktop environment

DesktopEnvironment == {"PLASMA", "MATE", "XFCE", "DEEPIN", "UNKNOWN"}

get_desktop_environment(session) ==
    LET s == lower(session) IN
    IF s = <<>> THEN "None"
    ELSE IF endswith(s, <<"m","a","t","e">>) THEN "MATE"
    ELSE IF endswith(s, <<"x","f","c","e">>) THEN "XFCE"
    ELSE IF endswith(s, <<"d","e","e","p","i","n">>) THEN "DEEPIN"
    ELSE IF contains(s, <<"p","l","a","s","m","a">>) THEN "PLASMA"
    ELSE "UNKNOWN"

\* ------------------------------------------------- the desktop's tools

\* The states of the desktop's settings tool: on the PATH and executable,
\* not on the PATH (Popen raises FileNotFoundError), or found and not
\* executable (Popen raises PermissionError).
ToolStates == {"ok", "missing", "noexec"}

\* What the query command of desktop environment de prints on stdout while
\* the compositor state is c.  qdbus and xfconf-query print the boolean and
\* a newline.  gsettings is given "get org.mate.Marco.general" as a single
\* argument, rejects it as an unknown command and prints nothing.
\* dbus-send --print-reply=literal indents the reply and ends it without a
\* newline.
QueryStdout(de, c) ==
    IF de = "MATE" THEN ""
    ELSE IF de = "DEEPIN"
    THEN (IF c THEN "   deepin wm" ELSE "   deepin metacity")
    ELSE (IF c THEN "true\n" ELSE "false\n")

\* _get_command_output: the output of the command; None (after logging)
\* when the executable is not found; any other exception of Popen leaves
\* the function.
_get_command_output(de, c, t) ==
    IF t = "ok" THEN [value |-> QueryStdout(de, c), raised |-> "None"]
    ELSE IF t = "missing" THEN [value |-> "None", raised |-> "None"]
    ELSE [value |-> "None", raised |-> "PermissionError"]

\* The comparison of the command's output with the text expected of an
\* active compositor.
Compare(out, text) ==
    [value |-> IF out.value = text THEN "True" ELSE "False",
     output |-> out.value, raised |-> out.raised, asked |-> TRUE]

\* is_compositing_enabled: value is "True", "False", or "None" for unknown;
\* output is what the query command gave; raised is the exception that
\* leaves the function; asked tells whether a command was run and waited
\* for.
is_compositing_enabled(session, c, t) ==
    LET de == get_desktop_environment(session) IN
    IF de = "PLASMA" THEN Compare(_get_command_output(de, c, t), "true\n")
    ELSE IF de = "MATE" THEN Compare(_get_command_output(de, c, t), "true\n")
    ELSE IF de = "XFCE" THEN Compare(_get_command_output(de, c, t), "true\n")
    ELSE IF de = "DEEPIN" THEN Compare(_get_command_output(de, c, t), "deepin wm\n")
    ELSE [value |-> "None", output |-> "None", raised |-> "None", asked |-> FALSE]

\* A command that is None.
NoCommand == <<>>

\* _get_compositor_commands: the (start, stop) commands of the desktop
\* environment, each NoCommand when the environment has none.
_get_compositor_commands(session) ==
    LET de == get_desktop_environment(session) IN
    IF de = "PLASMA" THEN
        [start |-> <<"qdbus", "org.kde.KWin", "/Compositor", "org.kde.kwin.Compositing.resume">>,
         stop  |-> <<"qdbus", "org.kde.KWin", "/Compositor", "org.kde.kwin.Compositing.suspend">>]
    ELSE IF de = "MATE" THEN
        [start |-> <<"gsettings", "set org.mate.Marco.general", "compositing-manager", "true">>,
         stop  |-> <<"gsettings", "set org.mate.Marco.general", "compositing-manager", "false">>]
    ELSE IF de = "XFCE" THEN
        [start |-> <<"xfconf-query", "--channel=xfwm4", "--property=/general/use_compositing", "--set=true">>,
         stop  |-> <<"xfconf-query", "--channel=xfwm4", "--property=/general/use_compositing", "--set=false">>]
    ELSE IF de = "DEEPIN" THEN
        [start |-> <<"dbus-send", "--session", "--dest=com.deepin.WMSwitcher", "--type=method_call",
                     "/com/deepin/WMSwitcher", "com.deepin.WMSwitcher.RequestSwitchWM">>,
         stop  |-> <<"dbus-send", "--session", "--dest=com.deepin.WMSwitcher", "--type=method_call",
                     "/com/deepin/WMSwitcher", "com.deepin.WMSwitcher.RequestSwitchWM">>]
    ELSE [start |-> NoCommand, stop |-> NoCommand]

\* What a finished command leaves the compositor in, from state c.  The
\* gsettings commands carry "set org.mate.Marco.general" as a single
\* argument: gsettings rejects them and changes nothing.  Of the others the
\* last argument says what is asked for; RequestSwitchWM switches over.
CommandEffect(cmd, c) ==
    LET word == cmd[Len(cmd)] IN
    IF cmd[1] = "gsettings" THEN c
    ELSE IF word \in {"org.kde.kwin.Compositing.suspend", "--set=false"} THEN FALSE
    ELSE IF word \in {"org.kde.kwin.Compositing.resume", "--set=true"} THEN TRUE
    ELSE ~c

\* _run_command: spawns the command without waiting for it; when the
\* executable is not found it logs and nothing is spawned; any other
\* exception of Popen leaves the function.
_run_command(queue, cmd, t) ==
    IF t = "ok" THEN [queue |-> Append(queue, cmd), raised |-> "None"]
    ELSE IF t = "missing" THEN [queue |-> queue, raised |-> "None"]
    ELSE [queue |-> queue, raised |-> "PermissionError"]

\* ------------------------------------------------- the compositing toggle

\* any(_COMPOSITING_DISABLED_STACK)
any(stk) == \E i \in 1..Len(stk) : stk[i]

\* disable_entry without the look at the stack.
disable_entry_ignoring_stack(reported, stk) ==
    IF reported = "None" THEN TRUE ELSE reported = "True"

\* disable_entry with an unknown state taken as it is, which is falsy.
disable_entry_unknown_falsy(reported, stk) ==
    IF any(stk) THEN FALSE ELSE reported = "True"

\* The value disable_compositing holds in compositing_enabled after its
\* look at the stack: the reported state, with unknown taken as enabled,
\* unless an element of the stack is True.
disable_entry(reported, stk) ==
    LET compositing_enabled == IF reported = "None" THEN TRUE ELSE reported = "True"
    IN  IF any(stk) THEN FALSE ELSE compositing_enabled

\* disable_runs without the early return.
disable_runs_always(entry, stop_compositor) ==
    stop_compositor # NoCommand

\* disable_compositing passes the stop command to _run_command when the
\* element it appended is True and the environment has a stop command.
disable_runs(entry, stop_compositor) ==
    entry /\ stop_compositor # NoCommand

\* enable_runs with the test of the removed element inverted.
enable_runs_inverted(compositing_disabled, start_compositor) ==
    ~compositing_disabled /\ start_compositor # NoCommand

\* enable_compositing passes the start command to _run_command when the
\* element it removed is True and the environment has a start command.
enable_runs(compositing_disabled, start_compositor) ==
    compositing_disabled /\ start_compositor # NoCommand

\* list.pop(): the list without its last element
pop(stk) == SubSeq(stk, 1, Len(stk) - 1)

\* A thread that is in neither disable_compositing nor enable_compositing.
\* Of a thread inside a call: pc is the place it is at, output and reported
\* are what is_compositing_enabled read and returned, entry is its local
\* compositing_enabled (in enable_compositing, compositing_disabled).
Idle == [pc |-> "idle", output |-> "None", reported |-> "None", entry |-> FALSE]

\* Another thread is inside one of the two functions.
OthersBusy(t) == \E u \in Threads \ {t} : call[u].pc # "idle"

\* The record of a call that has ended.
Ended(op, c, ran, raised) ==
    [op |-> op, output |-> c.output, reported |-> c.reported, entry |-> c.entry,
     ran |-> ran, raised |-> raised]

\* Thread t calls disable_compositing.  is_compositing_enabled runs the
\* query command and waits for it; what it read is kept until it returns.
\* Where the query raises, the exception leaves disable_compositing before
\* anything is appended.  Where the environment has no query command
\* is_compositing_enabled returns None at once and the thread goes on to
\* its look at the stack.  The stack has no lock: the look, the append and
\* the stop command are steps of their own, and other threads run between
\* them.
disable_compositing(t) ==
    /\ call[t].pc = "idle"
    /\ nDisable < MaxCalls
    /\ nDisable' = nDisable + 1
    /\ before' = IF stack = <<>> /\ ~OthersBusy(t) THEN compositing ELSE before
    /\ disturbed' = IF stack = <<>> /\ pending = <<>> /\ ~OthersBusy(t)
                    THEN FALSE ELSE disturbed
    /\ overlapped' = (overlapped \/ OthersBusy(t))
    /\ LET q == is_compositing_enabled(desktop_session, compositing, tool) IN
       IF q.raised # "None"
       THEN /\ last' = [op |-> "disable", output |-> q.output, reported |-> "None",
                        entry |-> FALSE, ran |-> NoCommand, raised |-> q.raised]
            /\ UNCHANGED call
       ELSE IF q.asked
       THEN /\ call' = [call EXCEPT ![t] = [pc |-> "queried", output |-> q.output,
                                            reported |-> q.value, entry |-> FALSE]]
            /\ UNCHANGED last
       ELSE /\ call' = [call EXCEPT ![t] = [pc |-> "looked", output |-> q.output,
                                            reported |-> q.value,
                                            entry |-> disable_entry(q.value, stack)]]
            /\ UNCHANGED last
    /\ UNCHANGED <<desktop_session, compositing, tool, stack, pending, nEnable,
                   nStop, nStart, emptyPop>>
    /\ UNCHANGED <<inhVars, dm>>

\* The query of thread t's disable_compositing returns, and the thread
\* looks at the stack (lines 302 to 305).
disable_returns(t) ==
    /\ call[t].pc = "queried"
    /\ call' = [call EXCEPT ![t].pc = "looked",
                            ![t].entry = disable_entry(call[t].reported, stack)]
    /\ UNCHANGED <<desktop_session, compositing, tool, stack, pending, last,
                   nDisable, nEnable, nStop, nStart, before, disturbed, overlapped,
                   emptyPop>>
    /\ UNCHANGED <<inhVars, dm>>

\* Thread t appends what its look gave (line 306), and returns unless it is
\* to pass the stop command on.
disable_appends(t) ==
    /\ call[t].pc = "looked"
    /\ stack' = Append(stack, call[t].entry)
    /\ LET stop_compositor == _get_compositor_commands(desktop_session).stop IN
       IF disable_runs(call[t].entry, stop_compositor)
       THEN /\ call' = [call EXCEPT ![t].pc = "appended"]
            /\ UNCHANGED last
       ELSE /\ call' = [call EXCEPT ![t] = Idle]
            /\ last' = Ended("disable", call[t], NoCommand, "None")
    /\ UNCHANGED <<desktop_session, compositing, tool, pending, nDisable, nEnable,
                   nStop, nStart, before, disturbed, overlapped, emptyPop>>
    /\ UNCHANGED <<inhVars, dm>>

\* Thread t passes the stop command to _run_command (line 311).
disable_stops(t) ==
    /\ call[t].pc = "appended"
    /\ LET stop_compositor == _get_compositor_commands(desktop_session).stop
           spawned == _run_command(pending, stop_compositor, tool)
       IN  /\ pending' = spawned.queue
           /\ last' = Ended("disable", call[t], stop_compositor, spawned.raised)
    /\ nStop' = nStop + 1
    /\ call' = [call EXCEPT ![t] = Idle]
    /\ UNCHANGED <<desktop_session, compositing, tool, stack, nDisable, nEnable,
                   nStart, before, disturbed, overlapped, emptyPop>>
    /\ UNCHANGED <<inhVars, dm>>

\* Thread t calls enable_compositing: it removes the last element (line
\* 318; from an empty list pop raises IndexError), and returns unless it is
\* to pass the start command on.
enable_compositing(t) ==
    /\ call[t].pc = "idle"
    /\ nEnable < MaxCalls
    /\ nEnable' = nEnable + 1
    /\ overlapped' = (overlapped \/ OthersBusy(t))
    /\ IF stack = <<>>
       THEN /\ last' = Ended("enable", Idle, NoCommand, "IndexError")
            /\ emptyPop' = TRUE
            /\ UNCHANGED <<stack, call>>
       ELSE LET compositing_disabled == stack[Len(stack)]
                start_compositor == _get_compositor_commands(desktop_session).start
                popped == [Idle EXCEPT !.entry = compositing_disabled]
            IN  /\ stack' = pop(stack)
                /\ IF enable_runs(compositing_disabled, start_compositor)
                   THEN /\ call' = [call EXCEPT ![t] = [popped EXCEPT !.pc = "popped"]]
                        /\ UNCHANGED last
                   ELSE /\ last' = Ended("enable", popped, NoCommand, "None")
                        /\ UNCHANGED call
                /\ UNCHANGED emptyPop
    /\ UNCHANGED <<desktop_session, compositing, tool, pending, nDisable, nStop,
                   nStart, before, disturbed>>
    /\ UNCHANGED <<inhVars, dm>>

\* Thread t passes the start command to _run_command (line 323).
enable_starts(t) ==
    /\ call[t].pc = "popped"
    /\ LET start_compositor == _get_compositor_commands(desktop_session).start
           spawned == _run_command(pending, start_compositor, tool)
       IN  /\ pending' = spawned.queue
           /\ last' = Ended("enable", call[t], start_compositor, spawned.raised)
    /\ nStart' = nStart + 1
    /\ call' = [call EXCEPT ![t] = Idle]
    /\ UNCHANGED <<desktop_session, compositing, tool, stack, nDisable, nEnable,
                   nStop, before, disturbed, overlapped, emptyPop>>
    /\ UNCHANGED <<inhVars, dm>>

\* One of the spawned commands finishes and the desktop does what it asks.
\* _run_command does not wait for the process it spawns: the commands are
\* concurrent processes and take effect in any order.
CommandDone ==
    /\ \E i \in 1..Len(pending) :
        /\ compositing' = CommandEffect(pending[i], compositing)
        /\ pending' = SubSeq(pending, 1, i - 1) \o SubSeq(pending, i + 1, Len(pending))
    /\ UNCHANGED <<desktop_session, tool, stack, call, last, nDisable, nEnable,
                   nStop, nStart, before, disturbed, overlapped, emptyPop>>
    /\ UNCHANGED <<inhVars, dm>>

\* Someone else switches the compositor.
ExternalToggle ==
    /\ compositing' = ~compositing
    /\ disturbed' = TRUE
    /\ UNCHANGED <<desktop_session, tool, stack, pending, call, last, nDisable,
                   nEnable, nStop, nStart, before, overlapped, emptyPop>>
    /\ UNCHANGED <<inhVars, dm>>

\* The desktop's settings tool is installed, removed, or its mode changed.
ExternalPath ==
    /\ tool' \in ToolStates \ {tool}
    /\ disturbed' = TRUE
    /\ UNCHANGED <<desktop_session, compositing, stack, pending, call, last, nDisable,
                   nEnable, nStop, nStart, before, overlapped, emptyPop>>
    /\ UNCHANGED <<inhVars, dm>>

NoCall == Ended("none", Idle, NoCommand, "None")

InitCompositing ==
    /\ desktop_session \in DesktopSessions
    /\ compositing \in BOOLEAN
    /\ tool \in ToolStates
    /\ stack = <<>>
    /\ pending = <<>>
    /\ call = [t \in Threads |-> Idle]
    /\ last = NoCall
    /\ nDisable = 0
    /\ nEnable = 0
    /\ nStop = 0
    /\ nStart = 0
    /\ before = compositing
    /\ disturbed = FALSE
    /\ overlapped = FALSE
    /\ emptyPop = FALSE

\* The screen saver services the source names.
Services == {"org.mate.ScreenSaver", "org.xfce.ScreenSaver"}

\* What holds inhibitions: the services, and the Gtk application.
Backends == Services \cup {"app"}

NoInhibitorCall ==
    [op |-> "none", cookie |-> 0, call |-> "none", to |-> "None", raised |-> "None"]

IdleInhibitor ==
    /\ proxy = "None"
    /\ app = TRUE
    /\ outstanding = [b \in Backends |-> {}]
    /\ cookies = {}
    /\ switched = FALSE
    /\ lastInhibit = NoInhibitorCall

IdleDisplay == dm = [pc |-> "idle"]

Init == InitCompositing /\ IdleInhibitor /\ IdleDisplay

Next ==
    \/ \E t \in Threads : disable_compositing(t)
    \/ \E t \in Threads : disable_returns(t)
    \/ \E t \in Threads : disable_appends(t)
    \/ \E t \in Threads : disable_stops(t)
    \/ \E t \in Threads : enable_compositing(t)
    \/ \E t \in Threads : enable_starts(t)
    \/ CommandDone
    \/ ExternalToggle
    \/ ExternalPath

Spec == Init /\ [][Next]_vars

\* ------------------------------------------------- compositing: claims

\* The desktop environment has compositor commands.
HasCommands == _get_compositor_commands(desktop_session).stop # NoCommand

\* The desktop environment has a query command for the compositor state.
HasQuery == get_desktop_environment(desktop_session) \in {"PLASMA", "MATE", "XFCE", "DEEPIN"}

\* No thread is inside disable_compositing or enable_compositing.
AllIdle == \A t \in Threads : call[t].pc = "idle"

\* The calls so far were made one after another.
InSequence == ~overlapped

\* The number of True elements of the stack.
TrueCount == Cardinality({i \in 1..Len(stack) : stack[i]})

\* The step is thread t's look at the stack in disable_compositing.
Looks(t) == call[t].pc \in {"idle", "queried"} /\ call'[t].pc = "looked"

\* The step is thread t's append in disable_compositing.
Appends(t) == call[t].pc = "looked" /\ call'[t].pc # "looked"

\* The step is thread t passing the stop command to _run_command.
Stops(t) == call[t].pc = "appended" /\ call'[t].pc = "idle"

\* The step is thread t passing the start command to _run_command.
Starts(t) == call[t].pc = "popped" /\ call'[t].pc = "idle"

\* The step is a call of enable_compositing.
EnableStep == nEnable' = nEnable + 1

\* C1, at rest: when compositing was enabled before the outermost
\* disable_compositing, the calls were made one after another and nothing
\* outside changed the desktop since, then once the stack is empty again
\* and the spawned commands are done, compositing is enabled.
C1_Restored ==
    (HasCommands /\ before /\ ~disturbed /\ InSequence /\ AllIdle
        /\ stack = <<>> /\ pending = <<>>)
        => compositing

\* C1, nested: under the same conditions an enable_compositing that leaves
\* an outer disable outstanding passes no start command on.
C1_InnerQuiet ==
    (EnableStep /\ HasCommands /\ before /\ ~disturbed /\ InSequence /\ Len(stack) >= 2)
        => (call' = call /\ last'.ran = NoCommand)

\* C1: balanced nested disable/enable calls, with no change from outside,
\* do not leave compositing worse than before the outermost call, and no
\* inner enable re-enables it.
C1_NestedCallsRestore == []C1_Restored /\ [][C1_InnerQuiet]_vars

\* C2: disable_compositing passes the stop command on only when it found no
\* element of the stack True; when it finds one, it appends False and runs
\* nothing.  With the calls made one after another, no other element of the
\* stack is True when the stop command is passed on.
C2_StopOnlyWhenNoneTrue ==
    [][/\ \A t \in Threads :
            /\ (Looks(t) /\ (\E i \in 1..Len(stack) : stack[i]))
                   => call'[t].entry = FALSE
            /\ Appends(t) =>
                   /\ stack' = Append(stack, call[t].entry)
                   /\ (call[t].entry = FALSE
                          => /\ call'[t].pc = "idle"
                             /\ last'.ran = NoCommand
                             /\ pending' = pending)
            /\ Stops(t) => call[t].entry = TRUE
       /\ nStop' # nStop =>
            /\ \E t \in Threads : Stops(t)
            /\ (InSequence => TrueCount = 1 /\ stack[Len(stack)] = TRUE)]_vars

\* C2 witness: a disable call found compositing reported enabled, yet
\* appended False and ran nothing because an earlier element is True.
C2_Witness ==
    /\ InSequence
    /\ last.op = "disable" /\ last.reported = "True"
    /\ stack = <<TRUE, FALSE>>
    /\ last.ran = NoCommand
    /\ nStop = 1

\* C3: enable_compositing removes the last element and passes the start
\* command on only when that element is True; when it is False it runs
\* nothing.
C3_StartOnlyWhenPoppedTrue ==
    [][/\ (EnableStep /\ stack # <<>>) =>
            /\ stack' = SubSeq(stack, 1, Len(stack) - 1)
            /\ (stack[Len(stack)] = FALSE
                   => /\ call' = call
                      /\ last'.ran = NoCommand
                      /\ pending' = pending)
       /\ nStart' # nStart =>
            \E t \in Threads : Starts(t) /\ call[t].entry = TRUE]_vars

\* C3 witness: an enable call removed a False element, ran nothing, and
\* left a True element below it.
C3_Witness ==
    /\ last.op = "enable" /\ last.raised = "None" /\ last.entry = FALSE
    /\ last.ran = NoCommand
    /\ HasCommands
    /\ stack = <<TRUE>>

\* C4: every disable call appends exactly one boolean, every enable call on
\* a non-empty stack removes exactly the last one, and while no enable was
\* called on an empty stack the length of the stack is the number of
\* disable calls minus the number of enable calls (once every call has
\* ended).
C4_PushPopBalance ==
    /\ []((~emptyPop /\ AllIdle) => Len(stack) = nDisable - nEnable)
    /\ [][/\ \A t \in Threads :
                Appends(t) => (\E b \in BOOLEAN : stack' = Append(stack, b))
          /\ (EnableStep /\ stack # <<>>) =>
               stack' = SubSeq(stack, 1, Len(stack) - 1)]_vars

\* C5: when the query executable is missing, compositing is assumed
\* enabled: is_compositing_enabled does not report disabled, and a disable
\* call that finds no True element on the stack appends True.
C5_QueryFailureAssumesEnabled ==
    [][\A t \in Threads :
        (Looks(t) /\ HasQuery /\ call'[t].output = "None"
            /\ ~(\E i \in 1..Len(stack) : stack[i]))
        => /\ call'[t].reported # "False"
           /\ call'[t].entry = TRUE]_vars

\* C6 as stated: when the state is reported unknown and no element of the
\* stack is True, disable_compositing appends True and goes on to run the
\* stop command.
C6_UnknownRunsStop ==
    [][\A t \in Threads :
        /\ (Looks(t) /\ call'[t].reported = "None"
                /\ ~(\E i \in 1..Len(stack) : stack[i]))
               => call'[t].entry = TRUE
        /\ (Appends(t) /\ call[t].reported = "None" /\ call[t].entry = TRUE)
               => /\ stack' = Append(stack, TRUE)
                  /\ call'[t].pc = "appended"]_vars

\* C6 amended: when the state is reported unknown and no element of the
\* stack is True, disable_compositing appends True; the environment then
\* has no stop command and none is run.
C6_UnknownTakenAsEnabled ==
    [][\A t \in Threads :
        /\ (Looks(t) /\ call'[t].reported = "None"
                /\ ~(\E i \in 1..Len(stack) : stack[i]))
               => call'[t].entry = TRUE
        /\ (Appends(t) /\ call[t].reported = "None")
               => /\ stack' = Append(stack, call[t].entry)
                  /\ ~HasCommands
                  /\ call'[t].pc = "idle"
                  /\ nStop' = nStop
                  /\ pending' = pending
                  /\ last'.ran = NoCommand]_vars

\* C6 witness: a disable call was told the state is unknown, appended True
\* and ran nothing.
C6_Witness ==
    /\ last.op = "disable" /\ last.reported = "None"
    /\ stack = <<TRUE>>
    /\ last.ran = NoCommand
    /\ nStop = 0

\* C10: after calls made one after another, the stack holds at most one
\* True element, and the stop commands passed on exceed the start commands
\* by at most one.
C10_AtMostOneTrue ==
    InSequence =>
        /\ TrueCount <= 1
        /\ nStop - nStart <= 1

\* C10 witness: calls made one after another switched compositing off, on,
\* and off again; one element is True and one more stop than start was
\* passed on.
C10_Witness ==
    /\ InSequence /\ AllIdle
    /\ nStart = 1 /\ nStop = 2
    /\ stack = <<TRUE>>

\* ------------------------------------------------- screen saver inhibitor

\* None where a cookie is expected (the backends' cookies are unsigned).
NoneCookie == -1

\* What a call into a backend does: whether it raises, and the cookie it
\* returns when it does not.
BackendOutcomes == [raised : BOOLEAN, value : 0..MaxCookie]

\* _get_screen_saver_inhibitor: the proxy of the inhibitor it returns, the
\* service of the desktop environment or None.  busOk:
\* Gio.DBusProxy.new_for_bus_sync raises no GLib.Error.
_get_screen_saver_inhibitor(session, busOk) ==
    LET de == get_desktop_environment(session)
        name == IF de = "MATE" THEN "org.mate.ScreenSaver"
                ELSE IF de = "XFCE" THEN "org.xfce.ScreenSaver"
                ELSE "None"
    IN  IF name # "None" /\ busOk THEN name ELSE "None"

\* DBusScreenSaverInhibitor.inhibit: the cookie returned, the exception that
\* leaves the method, the backend call made and the backend it goes to.
inhibit(prx, hasApp, backend) ==
    IF prx # "None"
    THEN IF backend.raised
         THEN [cookie |-> NoneCookie, raised |-> "None", call |-> "Inhibit", to |-> prx]
         ELSE [cookie |-> backend.value, raised |-> "None", call |-> "Inhibit", to |-> prx]
    ELSE IF ~hasApp
         THEN \* app is None: app.window raises
              [cookie |-> NoneCookie, raised |-> "AttributeError", call |-> "none",
               to |-> "None"]
         ELSE IF backend.raised
              THEN [cookie |-> NoneCookie, raised |-> "Exception", call |-> "inhibit",
                    to |-> "app"]
              ELSE IF backend.value = 0
                   THEN [cookie |-> NoneCookie, raised |-> "None", call |-> "inhibit",
                         to |-> "app"]
                   ELSE [cookie |-> backend.value, raised |-> "None", call |-> "inhibit",
                         to |-> "app"]

\* `not cookie`
falsy(cookie) == cookie = NoneCookie \/ cookie = 0

\* DBusScreenSaverInhibitor.uninhibit: the exception that leaves the method,
\* the backend call made and the backend it goes to.  backendRaises: the
\* backend call, when made, raises; nothing in uninhibit catches it.
uninhibit(prx, hasApp, cookie, backendRaises) ==
    IF falsy(cookie)
    THEN [raised |-> "None", call |-> "none", to |-> "None"]
    ELSE IF prx # "None"
         THEN [raised |-> IF backendRaises THEN "GLib.Error" ELSE "None",
               call |-> "UnInhibit", to |-> prx]
         ELSE IF ~hasApp
              THEN [raised |-> "AttributeError", call |-> "none", to |-> "None"]
              ELSE [raised |-> IF backendRaises THEN "Exception" ELSE "None",
                    call |-> "uninhibit", to |-> "app"]

\* The backend registers an inhibition when the call reaches it and
\* succeeds; Gtk.Application.inhibit returns 0 when it fails.
Registers(r, backend) ==
    /\ r.call # "none"
    /\ ~backend.raised
    /\ (r.call = "inhibit" => backend.value # 0)

\* DBusScreenSaverInhibitor.set_dbus_iface: makes the proxy one for the
\* service named, unless Gio.DBusProxy.new_for_bus_sync raises, which
\* leaves the method with the proxy as it was.
set_dbus_iface(prx, name, busOk) ==
    IF busOk THEN [proxy |-> name, raised |-> "None"]
    ELSE [proxy |-> prx, raised |-> "GLib.Error"]

\* The caller calls inhibit and keeps what it returns.  A backend hands out
\* no cookie it still holds.
Inhibit ==
    /\ Cardinality(cookies) < MaxInhibits
    /\ \E backend \in BackendOutcomes :
        LET r == inhibit(proxy, app, backend) IN
        /\ r.call # "none" => backend.value \notin outstanding[r.to]
        /\ outstanding' = IF Registers(r, backend)
                          THEN [outstanding EXCEPT ![r.to] = @ \cup {backend.value}]
                          ELSE outstanding
        /\ cookies' = IF r.raised = "None"
                      THEN cookies \cup {[value |-> r.cookie,
                                          from |-> IF r.cookie = NoneCookie
                                                   THEN "None" ELSE r.to]}
                      ELSE cookies
        /\ lastInhibit' = [op |-> "inhibit", cookie |-> r.cookie,
                           call |-> r.call, to |-> r.to, raised |-> r.raised]
    /\ UNCHANGED <<proxy, app, switched>>
    /\ UNCHANGED <<compVars, dm>>

\* The caller passes a cookie it holds to uninhibit; it keeps the cookie
\* when the call raises.  The call goes to the backend the inhibitor has
\* now: that backend drops the inhibition of that cookie if it holds one,
\* and the backend that gave the cookie, when it is another, keeps its own.
Uninhibit ==
    /\ \E held \in cookies, backendRaises \in BOOLEAN :
        LET r == uninhibit(proxy, app, held.value, backendRaises) IN
        /\ outstanding' = IF r.call # "none" /\ r.raised = "None"
                          THEN [outstanding EXCEPT ![r.to] = @ \ {held.value}]
                          ELSE outstanding
        /\ cookies' = IF r.raised = "None" THEN cookies \ {held} ELSE cookies
        /\ lastInhibit' = [op |-> "uninhibit", cookie |-> held.value,
                           call |-> r.call, to |-> r.to, raised |-> r.raised]
    /\ UNCHANGED <<proxy, app, switched>>
    /\ UNCHANGED <<compVars, dm>>

\* Someone calls set_dbus_iface on the inhibitor, naming a service.
SetDbusIface ==
    /\ \E name \in Services, busOk \in BOOLEAN :
        LET r == set_dbus_iface(proxy, name, busOk) IN
        /\ proxy' = r.proxy
        /\ lastInhibit' = [op |-> "set_dbus_iface", cookie |-> NoneCookie,
                           call |-> "none", to |-> "None", raised |-> r.raised]
        /\ switched' = (switched \/ (r.proxy # proxy /\ cookies # {}))
    /\ UNCHANGED <<app, outstanding, cookies>>
    /\ UNCHANGED <<compVars, dm>>

IdleCompositing ==
    /\ InitCompositing
    /\ compositing = TRUE
    /\ tool = "ok"

InitInhibit ==
    /\ IdleCompositing
    /\ IdleDisplay
    /\ \E busOk \in BOOLEAN :
           proxy = _get_screen_saver_inhibitor(desktop_session, busOk)
    /\ app \in BOOLEAN
    /\ outstanding = [b \in Backends |-> {}]
    /\ cookies = {}
    /\ switched = FALSE
    /\ lastInhibit = NoInhibitorCall

NextInhibit == Inhibit \/ Uninhibit \/ SetDbusIface

SpecInhibit == InitInhibit /\ [][NextInhibit]_vars

\* C7: inhibit lets no failure out; a failed request gives a None cookie,
\* and a cookie other than None is one the backend registered.
C7_InhibitNeverRaises ==
    lastInhibit.op = "inhibit" =>
        /\ lastInhibit.raised = "None"
        /\ (lastInhibit.cookie # NoneCookie =>
               lastInhibit.cookie \in outstanding[lastInhibit.to])

\* C8: uninhibit of any cookie other than None makes the reversing call, and
\* makes none for None, so that once every returned cookie was passed to
\* uninhibit, with the same backend as gave it, the backends hold no
\* inhibition.
C8_UninhibitReverses ==
    /\ (lastInhibit.op = "uninhibit" /\ lastInhibit.cookie # NoneCookie)
           => lastInhibit.call # "none"
    /\ (lastInhibit.op = "uninhibit" /\ lastInhibit.cookie = NoneCookie)
           => lastInhibit.call = "none"
    /\ (cookies = {} /\ ~switched)
           => \A b \in Backends : outstanding[b] = {}

\* ------------------------------------------------- display manager

\* What constructing a MutterDisplayManager does.
MutterOutcomes == {"ok", "DBusException", "Exception"}

\* The GnomeDesktop call of DisplayManager.__init__ that raises GLib.Error,
\* "none" when none does.
GnomeFailures == {"none", "RRScreen.new", "RRConfig.new_current", "load_current"}

\* DisplayManager.__init__: "ok", "unloaded" when it returns before setting
\* anything up, or the exception it raises.
DisplayManager_init(lib, screen, gnome) ==
    IF ~lib THEN "unloaded"
    ELSE IF ~screen THEN "NoScreenDetected"
    ELSE IF gnome # "none" THEN "GLib.Error"
    ELSE "ok"

\* get_display_manager with the test of LIB_GNOME_DESKTOP_AVAILABLE left out.
get_display_manager_untested_lib(dbus, lib, mutter, screen, gnome) ==
    LET logged == IF ~dbus THEN <<"error">>
                  ELSE IF mutter = "DBusException" THEN <<"debug">>
                  ELSE IF mutter = "Exception" THEN <<"exception">>
                  ELSE <<>>
        built == DisplayManager_init(lib, screen, gnome)
    IN  IF dbus /\ mutter = "ok"
        THEN [manager |-> "MutterDisplayManager", logged |-> logged]
        ELSE IF built \notin {"GLib.Error", "NoScreenDetected"}
        THEN [manager |-> "DisplayManager", logged |-> logged]
        ELSE [manager |-> "LegacyDisplayManager", logged |-> logged]

\* get_display_manager: the manager returned and the levels of the messages
\* logged.  Both exceptions of the Mutter construction are caught and
\* logged; of the GnomeDesktop construction, tried only when the library
\* is there, GLib.Error and NoScreenDetected are caught.
get_display_manager(dbus, lib, mutter, screen, gnome) ==
    LET logged == IF ~dbus THEN <<"error">>
                  ELSE IF mutter = "DBusException" THEN <<"debug">>
                  ELSE IF mutter = "Exception" THEN <<"exception">>
                  ELSE <<>>
        built == DisplayManager_init(lib, screen, gnome)
    IN  IF dbus /\ mutter = "ok"
        THEN [manager |-> "MutterDisplayManager", logged |-> logged]
        ELSE IF lib /\ built \notin {"GLib.Error", "NoScreenDetected"}
        THEN [manager |-> "DisplayManager", logged |-> logged]
        ELSE [manager |-> "LegacyDisplayManager", logged |-> logged]

\* The module is imported: DISPLAY_MANAGER = get_display_manager()
ImportModule ==
    /\ dm.pc = "import"
    /\ LET r == get_display_manager(dm.DBUS_AVAILABLE, dm.LIB_GNOME_DESKTOP_AVAILABLE,
                                    dm.mutter, dm.screen, dm.gnome)
       IN  dm' = [dm EXCEPT !.pc = "imported",
                            !.DISPLAY_MANAGER = r.manager,
                            !.logged = r.logged]
    /\ UNCHANGED <<compVars, inhVars>>

InitDisplay ==
    /\ IdleCompositing
    /\ desktop_session = <<>>
    /\ IdleInhibitor
    /\ dm \in [pc : {"import"},
               DBUS_AVAILABLE : BOOLEAN,
               LIB_GNOME_DESKTOP_AVAILABLE : BOOLEAN,
               mutter : MutterOutcomes,
               screen : BOOLEAN,
               gnome : GnomeFailures,
               DISPLAY_MANAGER : {"None"},
               logged : {<<>>}]

NextDisplay == ImportModule

SpecDisplay == InitDisplay /\ [][NextDisplay]_vars

\* C9: get_display_manager always returns a manager, in a fixed order of
\* preference: Mutter when DBus is there and its construction succeeds,
\* else the GnomeDesktop one when libgnomedesktop is there and its
\* construction raises neither GLib.Error nor NoScreenDetected, else the
\* legacy one; a failure of the Mutter construction is logged.
C9_FallbackOrder ==
    dm.pc = "imported" =>
        LET mutterOk == dm.DBUS_AVAILABLE /\ dm.mutter = "ok"
            gnomeOk == /\ dm.LIB_GNOME_DESKTOP_AVAILABLE
                       /\ dm.screen
                       /\ dm.gnome = "none"
        IN  /\ dm.DISPLAY_MANAGER # "None"
            /\ dm.DISPLAY_MANAGER =
                   IF mutterOk THEN "MutterDisplayManager"
                   ELSE IF gnomeOk THEN "DisplayManager"
                   ELSE "LegacyDisplayManager"
            /\ (dm.DISPLAY_MANAGER = "DisplayManager" => dm.LIB_GNOME_DESKTOP_AVAILABLE)
            /\ ((dm.DBUS_AVAILABLE /\ dm.mutter # "ok") => dm.logged # <<>>)

\* C9 witness: DBus is there but the Mutter construction raised an
\* exception other than DBusException, and the GnomeDesktop manager was
\* returned.
C9_Witness ==
    /\ dm.pc = "imported"
    /\ dm.DBUS_AVAILABLE /\ dm.mutter = "Exception"
    /\ dm.DISPLAY_MANAGER = "DisplayManager"
    /\ dm.logged = <<"exception">>

====
